---- MODULE Spec2Model ----
(***************************************************************************)
(* Model of the skydns client (src/client/client.go): construction of the *)
(* handle by NewClient and the nine operations of a handle, each of which  *)
(* builds a request, dispatches it on the HTTP or DNS transport and maps   *)
(* the response to a value and an error.                                   *)
(*                                                                         *)
(* Strings are sequences of one-character strings, so that slicing,        *)
(* splitting and joining are computed as the code computes them.           *)
(***************************************************************************)
EXTENDS Integers, Sequences, FiniteSets, TLC

VARIABLES args, newRet, c, last

vars == <<args, newRet, c, last>>

(***************************************************************************)
(* Bounds of the model.                                                    *)
(***************************************************************************)
\* longest remainder of a generated base address after its scheme prefix
MaxRest == 3
\* longest uuid passed to an operation
MaxUuid == 2
\* longest response body, in JSON tokens
MaxBody == 4

(***************************************************************************)
(* String helpers.                                                         *)
(***************************************************************************)
SeqsUpTo(S, n) == UNION {[1..k -> S] : k \in 0..n}

\* s[i:] of Go, with i counted from 0
From(s, i) == SubSeq(s, i + 1, Len(s))

\* s[i:j] of Go
Slice(s, i, j) == SubSeq(s, i + 1, j)

\* index (from 0) of the first ch in s, -1 if none
IndexByte(s, ch) ==
    IF \E i \in 1..Len(s) : s[i] = ch
    THEN (CHOOSE i \in 1..Len(s) : s[i] = ch /\ \A j \in 1..(i - 1) : s[j] # ch) - 1
    ELSE -1

\* index (from 0) of the last ch in s, -1 if none
LastIndexByte(s, ch) ==
    IF \E i \in 1..Len(s) : s[i] = ch
    THEN (CHOOSE i \in 1..Len(s) : s[i] = ch /\ \A j \in (i + 1)..Len(s) : s[j] # ch) - 1
    ELSE -1

Digit(d) == <<"0", "1", "2", "3", "4", "5", "6", "7", "8", "9">>[d + 1]

RECURSIVE ItoaNat(_)
ItoaNat(n) == IF n < 10 THEN <<Digit(n)>> ELSE ItoaNat(n \div 10) \o <<Digit(n % 10)>>

\* strconv.Itoa
Itoa(n) == IF n < 0 THEN <<"-">> \o ItoaNat(0 - n) ELSE ItoaNat(n)

HttpScheme == <<"h", "t", "t", "p", ":", "/", "/">>
HttpsScheme == <<"h", "t", "t", "p", "s", ":", "/", "/">>
ScenarioHost == <<"1", "0", ".", "0", ".", "0", ".", "1">>
ScenarioBase == HttpScheme \o ScenarioHost \o <<":", "8", "0", "8", "0">>
BadEscapeBase == HttpScheme \o <<"%", ":", "1">>
ShortBase == <<"h", ":", "1">>
SkydnsLocal == <<"s", "k", "y", "d", "n", "s", ".", "l", "o", "c", "a", "l">>
Secret == <<"s", "3", "c", "r", "3", "t">>

(***************************************************************************)
(* Values and errors.                                                      *)
(***************************************************************************)
Nil == "nil"
ErrNoHttpAddress == "No HTTP address specified"
ErrInvalidResponse == "Invalid HTTP response"
ErrServiceNotFound == "Service not found"
ErrConflictingUUID == "Conflicting UUID"
Sentinels == {ErrNoHttpAddress, ErrInvalidResponse, ErrServiceNotFound, ErrConflictingUUID}

\* values returned by the operations: nil, or a decoded value with its elements
NilVal == [t |-> "nil", elems |-> <<>>]
Val(t, elems) == [t |-> t, elems |-> elems]

\* no response
NoResp == [err |-> Nil, status |-> 0, body |-> <<>>]

\* no call in progress
NoCall ==
    [op |-> "none", uuid |-> <<>>, enc |-> Nil, sent |-> <<>>, resp |-> NoResp, val |-> NilVal,
     err |-> Nil, panicked |-> FALSE]

NoClient == [base |-> <<>>, secret |-> <<>>, basedns |-> <<>>, domain |-> <<>>, live |-> FALSE]

(***************************************************************************)
(* NewClient.                                                              *)
(***************************************************************************)
\* net.SplitHostPort: [host, port, err]
SplitHostPort(hostport) ==
    LET fail(why) == [host |-> <<>>, port |-> <<>>, err |-> why]
        i == LastIndexByte(hostport, ":")
        end == IndexByte(hostport, "]")
        bracket == hostport[1] = "["
        host == IF bracket THEN Slice(hostport, 1, end) ELSE Slice(hostport, 0, i)
        j == IF bracket THEN 1 ELSE 0
        k == IF bracket THEN end + 1 ELSE 0
    IN  IF i < 0 THEN fail("missing port in address")
        ELSE IF bracket /\ end < 0 THEN fail("missing ']' in address")
        ELSE IF bracket /\ end + 1 = Len(hostport) THEN fail("missing port in address")
        ELSE IF bracket /\ end + 1 # i /\ hostport[end + 2] = ":"
             THEN fail("too many colons in address")
        ELSE IF bracket /\ end + 1 # i THEN fail("missing port in address")
        ELSE IF ~bracket /\ IndexByte(host, ":") >= 0 THEN fail("too many colons in address")
        ELSE IF IndexByte(From(hostport, j), "[") >= 0 THEN fail("unexpected '[' in address")
        ELSE IF IndexByte(From(hostport, k), "]") >= 0 THEN fail("unexpected ']' in address")
        ELSE [host |-> host, port |-> From(hostport, i + 1), err |-> Nil]

\* net.JoinHostPort
JoinHostPort(host, port) ==
    IF IndexByte(host, ":") >= 0
    THEN <<"[">> \o host \o <<"]", ":">> \o port
    ELSE host \o <<":">> \o port

\* dns.Fqdn
Fqdn(s) == IF Len(s) > 0 /\ s[Len(s)] = "." THEN s ELSE s \o <<".">>

\* NewClient(base, secret, dnsdomain, dnsport): [c, err, panicked]
NewClient(base, secret, dnsdomain, dnsport) ==
    LET port == IF dnsport = 0 THEN 53 ELSE dnsport
    IN  IF base = <<>>
        THEN [c |-> NoClient, err |-> ErrNoHttpAddress, panicked |-> FALSE]
        ELSE IF Len(base) < 6
        THEN \* base[6:] is out of range
             [c |-> NoClient, err |-> Nil, panicked |-> TRUE]
        ELSE [c |-> [base |-> base,
                     secret |-> secret,
                     basedns |-> JoinHostPort(SplitHostPort(From(base, 6)).host, Itoa(port)),
                     domain |-> <<".">> \o Fqdn(dnsdomain),
                     live |-> TRUE],
              err |-> Nil,
              panicked |-> FALSE]

NotCalled == [called |-> FALSE, err |-> Nil, panicked |-> FALSE]

\* the call of NewClient on the arguments drawn by Init
NewClientCall ==
    /\ ~newRet.called
    /\ LET r == NewClient(args.base, args.secret, args.dnsdomain, args.dnsport)
       IN  /\ c' = r.c
           /\ newRet' = [called |-> TRUE, err |-> r.err, panicked |-> r.panicked]
    /\ UNCHANGED <<args, last>>

(***************************************************************************)
(* Construction on its own: the arguments range over generated addresses.  *)
(***************************************************************************)
RestChars == {"h", ":", "[", "]", "/"}
NewBases ==
    {p \o r : p \in {<<>>, HttpScheme, HttpsScheme}, r \in SeqsUpTo(RestChars, MaxRest)}
        \cup {ScenarioBase}
NewArgs ==
    [base : NewBases, secret : {<<>>, Secret}, dnsdomain : {SkydnsLocal, Fqdn(SkydnsLocal), <<>>},
     dnsport : {0, 1053}]

InitNew ==
    /\ args \in NewArgs
    /\ newRet = NotCalled
    /\ c = NoClient
    /\ last = NoCall

NextNew == NewClientCall

SpecNew == InitNew /\ [][NextNew]_vars

(***************************************************************************)
(* C1: NewClient with a non-empty base address and dnsport = 0 returns a   *)
(* handle and no error, whatever the length of the base and whether or not *)
(* its host:port parses, and the handle's DNS address uses port 53.        *)
(***************************************************************************)
EndsWith(s, suffix) ==
    Len(s) >= Len(suffix) /\ From(s, Len(s) - Len(suffix)) = suffix

C1_NonEmptyBaseAlwaysConstructs ==
    (newRet.called /\ args.base # <<>> /\ args.dnsport = 0)
        => /\ ~newRet.panicked
           /\ newRet.err = Nil
           /\ c.live
           /\ EndsWith(c.basedns, <<":", "5", "3">>)

(***************************************************************************)
(* C2: for a base "http://<host>:<port>" the DNS address is                *)
(* "<host>:<dnsport>" with the whole scheme prefix stripped; the base      *)
(* "http://10.0.0.1:8080" with dnsport 0 gives "10.0.0.1:53".              *)
(***************************************************************************)
PlainHosts == {<<"h">>, <<"h", "h">>, ScenarioHost}
PlainPorts == {<<"8", "0", "8", "0">>, <<"1">>}

C2_DnsAddressIsHostAndPort ==
    newRet.called =>
        \A h \in PlainHosts, p \in PlainPorts :
            args.base = HttpScheme \o h \o <<":">> \o p
                => /\ c.live
                   /\ c.basedns = h \o <<":">>
                                    \o Itoa(IF args.dnsport = 0 THEN 53 ELSE args.dnsport)

(***************************************************************************)
(* JSON decoding of a response body.  A body is a sequence of tokens, the  *)
(* token "null" standing for the literal.  Decoder.Decode reads the first  *)
(* value of the stream and leaves what follows it unread.                  *)
(***************************************************************************)
Tokens == {"[", "]", "{", "}", ",", "null"}
Bodies == SeqsUpTo(Tokens, MaxBody)

EOF == "EOF"
ErrUnexpectedEOF == "unexpected EOF"
SyntaxError == "json.SyntaxError"
UnmarshalTypeError == "json.UnmarshalTypeError"

RECURSIVE ReadValue(_, _)
RECURSIVE ReadElems(_, _, _)

\* the JSON value that starts at token i of b: [err, val, next]
ReadValue(b, i) ==
    LET fail(e) == [err |-> e, val |-> NilVal, next |-> i]
    IN  IF i > Len(b) THEN fail(IF i = 1 THEN EOF ELSE ErrUnexpectedEOF)
        ELSE IF b[i] = "null" THEN [err |-> Nil, val |-> Val("null", <<>>), next |-> i + 1]
        ELSE IF b[i] = "{"
        THEN IF i + 1 > Len(b) THEN fail(ErrUnexpectedEOF)
             ELSE IF b[i + 1] = "}"
             THEN [err |-> Nil, val |-> Val("object", <<>>), next |-> i + 2]
             ELSE fail(SyntaxError)
        ELSE IF b[i] = "["
        THEN IF i + 1 > Len(b) THEN fail(ErrUnexpectedEOF)
             ELSE IF b[i + 1] = "]"
             THEN [err |-> Nil, val |-> Val("array", <<>>), next |-> i + 2]
             ELSE ReadElems(b, i + 1, <<>>)
        ELSE fail(SyntaxError)

\* the elements of an array from token i on, after the elements acc
ReadElems(b, i, acc) ==
    LET fail(e) == [err |-> e, val |-> NilVal, next |-> i]
        e == ReadValue(b, i)
    IN  IF i > Len(b) THEN fail(ErrUnexpectedEOF)
        ELSE IF e.err # Nil THEN fail(e.err)
        ELSE IF e.next > Len(b) THEN fail(ErrUnexpectedEOF)
        ELSE IF b[e.next] = "]"
        THEN [err |-> Nil, val |-> Val("array", Append(acc, e.val)), next |-> e.next + 1]
        ELSE IF b[e.next] = ","
        THEN ReadElems(b, e.next + 1, Append(acc, e.val))
        ELSE fail(SyntaxError)

\* Decode into a *msg.Service
DecodeService(body) ==
    LET r == ReadValue(body, 1)
    IN  IF r.err # Nil THEN [val |-> NilVal, err |-> r.err]
        ELSE IF r.val.t = "null" THEN [val |-> NilVal, err |-> Nil]
        ELSE IF r.val.t = "object" THEN [val |-> Val("Service", <<>>), err |-> Nil]
        ELSE [val |-> Val("Service", <<>>), err |-> UnmarshalTypeError]

\* Decode into a []*msg.Service
DecodeServices(body) ==
    LET r == ReadValue(body, 1)
        elem(v) == IF v.t = "null" THEN NilVal ELSE Val("Service", <<>>)
        elems == [k \in 1..Len(r.val.elems) |-> elem(r.val.elems[k])]
    IN  IF r.err # Nil THEN [val |-> NilVal, err |-> r.err]
        ELSE IF r.val.t = "null" THEN [val |-> NilVal, err |-> Nil]
        ELSE IF r.val.t = "array"
        THEN [val |-> Val("slice", elems),
              err |-> IF \E k \in 1..Len(r.val.elems) : r.val.elems[k].t = "array"
                      THEN UnmarshalTypeError ELSE Nil]
        ELSE [val |-> NilVal, err |-> UnmarshalTypeError]

\* Decode into a NameCount
DecodeNameCount(body) ==
    LET r == ReadValue(body, 1)
    IN  IF r.err # Nil THEN [val |-> NilVal, err |-> r.err]
        ELSE IF r.val.t = "null" THEN [val |-> NilVal, err |-> Nil]
        ELSE IF r.val.t = "object" THEN [val |-> Val("map", <<>>), err |-> Nil]
        ELSE [val |-> NilVal, err |-> UnmarshalTypeError]

(***************************************************************************)
(* Request builders.                                                       *)
(***************************************************************************)
ServicesPath == <<"/", "s", "k", "y", "d", "n", "s", "/", "s", "e", "r", "v", "i", "c", "e", "s", "/">>
RegionsPath == <<"/", "s", "k", "y", "d", "n", "s", "/", "r", "e", "g", "i", "o", "n", "s", "/">>
EnvironmentsPath ==
    <<"/", "s", "k", "y", "d", "n", "s", "/", "e", "n", "v", "i", "r", "o", "n", "m", "e", "n", "t", "s", "/">>
CallbacksPath == <<"/", "s", "k", "y", "d", "n", "s", "/", "c", "a", "l", "l", "b", "a", "c", "k", "s", "/">>

HexDigits == {"0", "1", "2", "3", "4", "5", "6", "7", "8", "9", "a", "b", "c", "d", "e", "f"}
InvalidURLEscape == "invalid URL escape"

\* the error of http.NewRequest for a URL: a "%" not followed by two hex digits
NewRequestErr(url) ==
    IF \E i \in 1..Len(url) :
           /\ url[i] = "%"
           /\ ~(i + 2 <= Len(url) /\ url[i + 1] \in HexDigits /\ url[i + 2] \in HexDigits)
    THEN InvalidURLEscape
    ELSE Nil

NoReq == [proto |-> "none", method |-> "", url |-> <<>>, auth |-> <<>>, body |-> <<>>]

\* Client.joinUrl
joinUrl(h, uuid) == h.base \o ServicesPath \o uuid

\* newRequest setting the header whether or not a secret is configured
newRequestAlwaysAuth(h, method, url, body) ==
    LET err == NewRequestErr(url)
    IN  IF err # Nil
        THEN [req |-> NoReq, err |-> err, panicked |-> TRUE]
        ELSE [req |-> [proto |-> "http", method |-> method, url |-> url, auth |-> <<h.secret>>,
                       body |-> body],
              err |-> err, panicked |-> FALSE]

\* Client.newRequest: [req, err, panicked]
newRequest(h, method, url, body) ==
    LET err == NewRequestErr(url)
        req == IF err = Nil
               THEN [proto |-> "http", method |-> method, url |-> url, auth |-> <<>>, body |-> body]
               ELSE NoReq
    IN  IF h.secret # <<>>
        THEN IF err # Nil
             THEN \* req is nil: req.Header dereferences it
                  [req |-> NoReq, err |-> err, panicked |-> TRUE]
             ELSE [req |-> [req EXCEPT !.auth = Append(@, h.secret)], err |-> err, panicked |-> FALSE]
        ELSE [req |-> req, err |-> err, panicked |-> FALSE]

TypeSRV == 33

\* Client.newRequestDNS: [req, err]
newRequestDNS(qname, qtype) ==
    [req |-> [proto |-> "dns", method |-> "QUERY", url |-> <<>>, auth |-> <<>>,
              body |-> <<qname>> \o Itoa(qtype)],
     err |-> Nil]

(***************************************************************************)
(* The outcome of one call of an operation: the requests dispatched on the *)
(* transport, the response the transport gave, and what the call returned. *)
(***************************************************************************)
Returned(sent, resp, val, err) ==
    [sent |-> sent, resp |-> resp, val |-> val, err |-> err, panicked |-> FALSE]
Panicked == [sent |-> <<>>, resp |-> NoResp, val |-> NilVal, err |-> Nil, panicked |-> TRUE]

StatusOK == 200
StatusCreated == 201
StatusNotFound == 404
StatusConflict == 409

(***************************************************************************)
(* What the transports can answer.  A response body is a stream: its       *)
(* content is an input of a call only where the handler reads it.          *)
(***************************************************************************)
Statuses == {200, 201, 204, 404, 409, 500}
TransportErr == "dial tcp: connection refused"
Failed == [err |-> TransportErr, status |-> 0, body |-> <<>>]
StatusOnly == {Failed} \cup [err : {Nil}, status : Statuses, body : {<<>>}]
GetResponses == StatusOnly \cup [err : {Nil}, status : {StatusOK}, body : Bodies]
ListResponses == {Failed} \cup [err : {Nil}, status : Statuses, body : Bodies]
DNSResponses == {Failed, NoResp}

EncodeErr == "json: error calling MarshalJSON"
Uuids == SeqsUpTo({"a", "%"}, MaxUuid)
TTLs == {0, 30}

(***************************************************************************)
(* The operations of a handle h.  tr is the answer of the transport, used  *)
(* only when the request is dispatched.                                    *)
(***************************************************************************)
\* Add with a 409 answered like any other unexpected status
AddStatusNoConflict(status) ==
    IF status = StatusCreated THEN Nil ELSE ErrInvalidResponse

\* the switch on resp.StatusCode of Add
AddStatus(status) ==
    IF status = StatusCreated THEN Nil
    ELSE IF status = StatusConflict THEN ErrConflictingUUID
    ELSE ErrInvalidResponse

\* Client.Add
Add(h, uuid, encErr, tr) ==
    IF encErr # Nil THEN Returned(<<>>, NoResp, NilVal, encErr)
    ELSE LET rq == newRequest(h, "PUT", joinUrl(h, uuid), <<"Service">>)
         IN  IF rq.panicked THEN Panicked
             ELSE IF rq.err # Nil THEN Returned(<<>>, NoResp, NilVal, rq.err)
             ELSE IF tr.err # Nil THEN Returned(<<rq.req>>, tr, NilVal, tr.err)
             ELSE Returned(<<rq.req>>, tr, NilVal, AddStatus(tr.status))

\* Delete mapping the status as Get does
DeleteMapsStatus(h, uuid, tr) ==
    LET rq == newRequest(h, "DELETE", joinUrl(h, uuid), <<>>)
    IN  IF rq.panicked THEN Panicked
        ELSE IF rq.err # Nil THEN Returned(<<>>, NoResp, NilVal, rq.err)
        ELSE IF tr.err # Nil THEN Returned(<<rq.req>>, tr, NilVal, tr.err)
        ELSE Returned(<<rq.req>>, tr, NilVal,
                      IF tr.status \div 100 = 2 THEN Nil
                      ELSE IF tr.status = StatusNotFound THEN ErrServiceNotFound
                      ELSE ErrInvalidResponse)

\* Client.Delete
Delete(h, uuid, tr) ==
    LET rq == newRequest(h, "DELETE", joinUrl(h, uuid), <<>>)
    IN  IF rq.panicked THEN Panicked
        ELSE IF rq.err # Nil THEN Returned(<<>>, NoResp, NilVal, rq.err)
        ELSE IF tr.err # Nil THEN Returned(<<rq.req>>, tr, NilVal, tr.err)
        ELSE Returned(<<rq.req>>, tr, NilVal, Nil)

\* Get taking every 2xx status for success
GetStatusAny2xx(status) ==
    IF status \div 100 = 2 THEN Nil
    ELSE IF status = StatusNotFound THEN ErrServiceNotFound
    ELSE ErrInvalidResponse

\* the switch on resp.StatusCode of Get; Nil: go on to decode the body
GetStatus(status) ==
    IF status = StatusOK THEN Nil
    ELSE IF status = StatusNotFound THEN ErrServiceNotFound
    ELSE ErrInvalidResponse

\* Client.Get
Get(h, uuid, tr) ==
    LET rq == newRequest(h, "GET", joinUrl(h, uuid), <<>>)
        d == DecodeService(tr.body)
    IN  IF rq.panicked THEN Panicked
        ELSE IF rq.err # Nil THEN Returned(<<>>, NoResp, NilVal, rq.err)
        ELSE IF tr.err # Nil THEN Returned(<<rq.req>>, tr, NilVal, tr.err)
        ELSE IF GetStatus(tr.status) # Nil
        THEN Returned(<<rq.req>>, tr, NilVal, GetStatus(tr.status))
        ELSE IF d.err # Nil THEN Returned(<<rq.req>>, tr, NilVal, d.err)
        ELSE Returned(<<rq.req>>, tr, d.val, Nil)

\* Client.Update
Update(h, uuid, ttl, tr) ==
    LET b == <<"{", "\"TTL\"", ":">> \o Itoa(ttl) \o <<"}">>
        rq == newRequest(h, "PATCH", joinUrl(h, uuid), b)
    IN  IF rq.panicked THEN Panicked
        ELSE IF rq.err # Nil THEN Returned(<<>>, NoResp, NilVal, rq.err)
        ELSE IF tr.err # Nil THEN Returned(<<rq.req>>, tr, NilVal, tr.err)
        ELSE Returned(<<rq.req>>, tr, NilVal, Nil)

\* GetAllServices mapping the status as Get does
GetAllServicesMapsStatus(h, tr) ==
    LET rq == newRequest(h, "GET", joinUrl(h, <<>>), <<>>)
        d == DecodeServices(tr.body)
    IN  IF rq.panicked THEN Panicked
        ELSE IF rq.err # Nil THEN Returned(<<>>, NoResp, NilVal, rq.err)
        ELSE IF tr.err # Nil THEN Returned(<<rq.req>>, tr, NilVal, tr.err)
        ELSE IF GetStatus(tr.status) # Nil
        THEN Returned(<<rq.req>>, tr, NilVal, GetStatus(tr.status))
        ELSE IF d.err # Nil THEN Returned(<<rq.req>>, tr, NilVal, d.err)
        ELSE Returned(<<rq.req>>, tr, d.val, Nil)

\* Client.GetAllServices
GetAllServices(h, tr) ==
    LET rq == newRequest(h, "GET", joinUrl(h, <<>>), <<>>)
        d == DecodeServices(tr.body)
    IN  IF rq.panicked THEN Panicked
        ELSE IF rq.err # Nil THEN Returned(<<>>, NoResp, NilVal, rq.err)
        ELSE IF tr.err # Nil THEN Returned(<<rq.req>>, tr, NilVal, tr.err)
        ELSE IF d.err # Nil THEN Returned(<<rq.req>>, tr, NilVal, d.err)
        ELSE Returned(<<rq.req>>, tr, d.val, Nil)

\* Client.GetRegions
GetRegions(h, tr) ==
    LET rq == newRequest(h, "GET", h.base \o RegionsPath, <<>>)
        d == DecodeNameCount(tr.body)
    IN  IF rq.panicked THEN Panicked
        ELSE IF rq.err # Nil THEN Returned(<<>>, NoResp, NilVal, rq.err)
        ELSE IF tr.err # Nil THEN Returned(<<rq.req>>, tr, NilVal, tr.err)
        ELSE IF d.err # Nil THEN Returned(<<rq.req>>, tr, NilVal, d.err)
        ELSE Returned(<<rq.req>>, tr, d.val, Nil)

\* GetRegionsDNS sending the query again after a failed exchange
GetRegionsDNSRetries(h, tr) ==
    LET rq == newRequestDNS("regions", TypeSRV)
        msg == [rq.req EXCEPT !.url = h.basedns]
    IN  IF rq.err # Nil THEN Returned(<<>>, NoResp, NilVal, rq.err)
        ELSE IF tr.err # Nil THEN Returned(<<msg, msg>>, tr, NilVal, tr.err)
        ELSE Returned(<<msg>>, tr, NilVal, Nil)

\* Client.GetRegionsDNS: the query goes to h.basedns; the answer is not decoded
GetRegionsDNS(h, tr) ==
    LET rq == newRequestDNS("regions", TypeSRV)
        msg == [rq.req EXCEPT !.url = h.basedns]
    IN  IF rq.err # Nil THEN Returned(<<>>, NoResp, NilVal, rq.err)
        ELSE IF tr.err # Nil THEN Returned(<<msg>>, tr, NilVal, tr.err)
        ELSE Returned(<<msg>>, tr, NilVal, Nil)

\* Client.GetEnvironments
GetEnvironments(h, tr) ==
    LET rq == newRequest(h, "GET", h.base \o EnvironmentsPath, <<>>)
        d == DecodeNameCount(tr.body)
    IN  IF rq.panicked THEN Panicked
        ELSE IF rq.err # Nil THEN Returned(<<>>, NoResp, NilVal, rq.err)
        ELSE IF tr.err # Nil THEN Returned(<<rq.req>>, tr, NilVal, tr.err)
        ELSE IF d.err # Nil THEN Returned(<<rq.req>>, tr, NilVal, d.err)
        ELSE Returned(<<rq.req>>, tr, d.val, Nil)

\* AddCallback with the switch of Add
AddCallbackStatusOfAdd(status) ==
    IF status = StatusCreated THEN Nil
    ELSE IF status = StatusConflict THEN ErrConflictingUUID
    ELSE ErrInvalidResponse

\* the switch on resp.StatusCode of AddCallback
AddCallbackStatus(status) ==
    IF status = StatusCreated THEN Nil
    ELSE IF status = StatusNotFound THEN ErrServiceNotFound
    ELSE ErrInvalidResponse

\* Client.AddCallback
AddCallback(h, uuid, encErr, tr) ==
    IF encErr # Nil THEN Returned(<<>>, NoResp, NilVal, encErr)
    ELSE LET rq == newRequest(h, "PUT", h.base \o CallbacksPath \o uuid, <<"Callback">>)
         IN  IF rq.panicked THEN Panicked
             ELSE IF rq.err # Nil THEN Returned(<<>>, NoResp, NilVal, rq.err)
             ELSE IF tr.err # Nil THEN Returned(<<rq.req>>, tr, NilVal, tr.err)
             ELSE Returned(<<rq.req>>, tr, NilVal, AddCallbackStatus(tr.status))

(***************************************************************************)
(* Calls.  A caller calls one operation at a time and blocks until it      *)
(* returns; last is the record of that call: its operation, its arguments  *)
(* and its outcome.  No operation assigns a field of the handle.           *)
(***************************************************************************)
CallRecord(op, uuid, encErr, out) ==
    [op |-> op, uuid |-> uuid, enc |-> encErr, sent |-> out.sent, resp |-> out.resp,
     val |-> out.val, err |-> out.err, panicked |-> out.panicked]

AddCall ==
    /\ c.live /\ last = NoCall
    /\ \E uuid \in Uuids, encErr \in {Nil, EncodeErr}, tr \in StatusOnly :
           last' = CallRecord("Add", uuid, encErr, Add(c, uuid, encErr, tr))
    /\ UNCHANGED <<args, newRet, c>>

DeleteCall ==
    /\ c.live /\ last = NoCall
    /\ \E uuid \in Uuids, tr \in StatusOnly :
           last' = CallRecord("Delete", uuid, Nil, Delete(c, uuid, tr))
    /\ UNCHANGED <<args, newRet, c>>

GetCall ==
    /\ c.live /\ last = NoCall
    /\ \E uuid \in Uuids, tr \in GetResponses :
           last' = CallRecord("Get", uuid, Nil, Get(c, uuid, tr))
    /\ UNCHANGED <<args, newRet, c>>

UpdateCall ==
    /\ c.live /\ last = NoCall
    /\ \E uuid \in Uuids, ttl \in TTLs, tr \in StatusOnly :
           last' = CallRecord("Update", uuid, Nil, Update(c, uuid, ttl, tr))
    /\ UNCHANGED <<args, newRet, c>>

GetAllServicesCall ==
    /\ c.live /\ last = NoCall
    /\ \E tr \in ListResponses :
           last' = CallRecord("GetAllServices", <<>>, Nil, GetAllServices(c, tr))
    /\ UNCHANGED <<args, newRet, c>>

GetRegionsCall ==
    /\ c.live /\ last = NoCall
    /\ \E tr \in ListResponses :
           last' = CallRecord("GetRegions", <<>>, Nil, GetRegions(c, tr))
    /\ UNCHANGED <<args, newRet, c>>

GetRegionsDNSCall ==
    /\ c.live /\ last = NoCall
    /\ \E tr \in DNSResponses :
           last' = CallRecord("GetRegionsDNS", <<>>, Nil, GetRegionsDNS(c, tr))
    /\ UNCHANGED <<args, newRet, c>>

GetEnvironmentsCall ==
    /\ c.live /\ last = NoCall
    /\ \E tr \in ListResponses :
           last' = CallRecord("GetEnvironments", <<>>, Nil, GetEnvironments(c, tr))
    /\ UNCHANGED <<args, newRet, c>>

AddCallbackCall ==
    /\ c.live /\ last = NoCall
    /\ \E uuid \in Uuids, encErr \in {Nil, EncodeErr}, tr \in StatusOnly :
           last' = CallRecord("AddCallback", uuid, encErr, AddCallback(c, uuid, encErr, tr))
    /\ UNCHANGED <<args, newRet, c>>

\* the caller takes what the call returned; the handle keeps nothing of it
Return ==
    /\ last # NoCall
    /\ last' = NoCall
    /\ UNCHANGED <<args, newRet, c>>

Args ==
    [base : {<<>>, ShortBase, ScenarioBase, BadEscapeBase}, secret : {<<>>, Secret},
     dnsdomain : {SkydnsLocal}, dnsport : {0}]

Init ==
    /\ args \in Args
    /\ newRet = NotCalled
    /\ c = NoClient
    /\ last = NoCall

Next ==
    \/ NewClientCall
    \/ AddCall
    \/ DeleteCall
    \/ GetCall
    \/ UpdateCall
    \/ GetAllServicesCall
    \/ GetRegionsCall
    \/ GetRegionsDNSCall
    \/ GetEnvironmentsCall
    \/ AddCallbackCall
    \/ Return

Spec == Init /\ [][Next]_vars

(***************************************************************************)
(* What the calls are judged by.                                           *)
(***************************************************************************)
HTTPOps ==
    {"Add", "Get", "Delete", "Update", "GetAllServices", "GetRegions", "GetEnvironments",
     "AddCallback"}

\* the URL the call recorded in last hands to http.NewRequest
CallURL ==
    IF last.op \in {"Add", "Get", "Delete", "Update", "GetAllServices"}
    THEN c.base \o ServicesPath \o last.uuid
    ELSE IF last.op = "GetRegions" THEN c.base \o RegionsPath
    ELSE IF last.op = "GetEnvironments" THEN c.base \o EnvironmentsPath
    ELSE c.base \o CallbacksPath \o last.uuid

\* the call reached http.NewRequest, and http.NewRequest failed
ConstructionFailed ==
    last.op \in HTTPOps /\ last.enc = Nil /\ NewRequestErr(CallURL) # Nil

\* the request went out and a response came back
RoundTrip(op) == last.op = op /\ last.sent # <<>> /\ last.resp.err = Nil

(***************************************************************************)
(* C3: when the construction of the HTTP request fails, the operation      *)
(* returns that error unchanged and dispatches nothing, with or without a  *)
(* shared secret, and never aborts instead of returning.                   *)
(***************************************************************************)
C3_ConstructionErrorIsReturned ==
    ConstructionFailed
        => /\ ~last.panicked
           /\ last.err = NewRequestErr(CallURL)
           /\ last.sent = <<>>

(***************************************************************************)
(* C4: when the round trip completes, Add returns nil for status 201,      *)
(* ErrConflictingUUID for 409 and ErrInvalidResponse for every other       *)
(* status.                                                                 *)
(***************************************************************************)
C4_AddMapsStatus ==
    RoundTrip("Add")
        => /\ ~last.panicked
           /\ last.resp.status = 201 => last.err = Nil
           /\ last.resp.status = 409 => last.err = ErrConflictingUUID
           /\ last.resp.status \notin {201, 409} => last.err = ErrInvalidResponse

C4_Witness ==
    RoundTrip("Add") /\ last.resp.status = 409 /\ last.err = ErrConflictingUUID

(***************************************************************************)
(* C5: when the round trip completes, Get returns ErrServiceNotFound and   *)
(* no record for 404; ErrInvalidResponse and no record for every status    *)
(* other than 200 and 404; for 200 the decoded record and no error when    *)
(* the body decodes, and otherwise the decode error, which is none of the  *)
(* four sentinels, and no record.                                          *)
(***************************************************************************)
C5_GetMapsStatusThenDecodes ==
    RoundTrip("Get")
        => LET d == DecodeService(last.resp.body)
           IN  /\ ~last.panicked
               /\ last.resp.status = 404
                    => last.err = ErrServiceNotFound /\ last.val = NilVal
               /\ last.resp.status \notin {200, 404}
                    => last.err = ErrInvalidResponse /\ last.val = NilVal
               /\ (last.resp.status = 200 /\ d.err = Nil)
                    => last.err = Nil /\ last.val = d.val
               /\ (last.resp.status = 200 /\ d.err # Nil)
                    => last.err = d.err /\ last.err \notin Sentinels /\ last.val = NilVal
               /\ (last.resp.status = 200 /\ last.resp.body = <<"{", "}">>)
                    => last.err = Nil /\ last.val = Val("Service", <<>>)
               /\ (last.resp.status = 200 /\ last.resp.body = <<"{">>)
                    => last.err = ErrUnexpectedEOF /\ last.val = NilVal

C5_Witness ==
    /\ RoundTrip("Get")
    /\ last.resp.status = 200
    /\ last.resp.body = <<"[", "]">>
    /\ last.err = UnmarshalTypeError
    /\ last.val = NilVal

(***************************************************************************)
(* C6: when the round trip completes, AddCallback returns nil for status   *)
(* 201, ErrServiceNotFound for 404 and ErrInvalidResponse for every other  *)
(* status; it never returns ErrConflictingUUID.                            *)
(***************************************************************************)
C6_AddCallbackMapsStatus ==
    /\ RoundTrip("AddCallback")
        => /\ ~last.panicked
           /\ last.resp.status = 201 => last.err = Nil
           /\ last.resp.status = 404 => last.err = ErrServiceNotFound
           /\ last.resp.status \notin {201, 404} => last.err = ErrInvalidResponse
    /\ last.op = "AddCallback" => last.err # ErrConflictingUUID

C6_Witness ==
    RoundTrip("AddCallback") /\ last.resp.status = 409 /\ last.err = ErrInvalidResponse

(***************************************************************************)
(* C7: Delete and Update return nil for every status once the request has  *)
(* made its round trip; they return an error only when the construction of *)
(* the request or the dispatch fails, and never one of the four sentinels. *)
(***************************************************************************)
C7_DeleteUpdateIgnoreStatus ==
    last.op \in {"Delete", "Update"}
        => /\ RoundTrip(last.op) => last.err = Nil /\ ~last.panicked
           /\ last.err # Nil
                => \/ NewRequestErr(CallURL) # Nil /\ last.err = NewRequestErr(CallURL)
                   \/ last.resp.err # Nil /\ last.err = last.resp.err
           /\ last.err \notin Sentinels

C7_Witness ==
    RoundTrip("Delete") /\ last.resp.status = 404 /\ last.err = Nil

(***************************************************************************)
(* C8: every HTTP request a call dispatches carries an Authorization       *)
(* header whose only value is the secret given at construction when that   *)
(* secret is non-empty, and no Authorization header when it is empty.      *)
(***************************************************************************)
C8_AuthorizationIsTheSecret ==
    \A k \in 1..Len(last.sent) :
        last.sent[k].proto = "http"
            => last.sent[k].auth = IF args.secret # <<>> THEN <<args.secret>> ELSE <<>>

C8_Witness ==
    /\ last.op = "Update"
    /\ Len(last.sent) = 1
    /\ last.sent[1].proto = "http"
    /\ last.sent[1].auth = <<Secret>>

(***************************************************************************)
(* C9: a call dispatches at most one request: exactly one when the request *)
(* is constructed, none when encoding or construction fails, and no second *)
(* one after a transport error or an error status; the configuration of    *)
(* the handle is after the call what construction made it.                 *)
(***************************************************************************)
C9_AtMostOneDispatch ==
    last.op # "none"
        => /\ Len(last.sent) <= 1
           /\ (last.op \in HTTPOps /\ last.enc = Nil /\ NewRequestErr(CallURL) = Nil)
                => Len(last.sent) = 1
           /\ last.op = "GetRegionsDNS" => Len(last.sent) = 1
           /\ (last.enc # Nil \/ ConstructionFailed) => last.sent = <<>>
           /\ c = NewClient(args.base, args.secret, args.dnsdomain, args.dnsport).c

C9_Witness ==
    /\ last.op = "GetRegionsDNS"
    /\ last.resp.err = TransportErr
    /\ last.err = TransportErr
    /\ Len(last.sent) = 1

(***************************************************************************)
(* C10: GetAllServices, GetRegions and GetEnvironments do not look at the  *)
(* status: when the round trip completes, a body that decodes gives the    *)
(* decoded value and no error for every status (the body [] an empty       *)
(* sequence from GetAllServices), a body that does not gives the decode    *)
(* error, and none returns ErrServiceNotFound or ErrInvalidResponse.       *)
(***************************************************************************)
C10_ListingsIgnoreStatus ==
    /\ last.op \in {"GetAllServices", "GetRegions", "GetEnvironments"}
         => last.err \notin {ErrServiceNotFound, ErrInvalidResponse}
    /\ \A op \in {"GetAllServices", "GetRegions", "GetEnvironments"} :
         RoundTrip(op)
           => LET d == IF op = "GetAllServices" THEN DecodeServices(last.resp.body)
                       ELSE DecodeNameCount(last.resp.body)
              IN  /\ ~last.panicked
                  /\ d.err = Nil => last.err = Nil /\ last.val = d.val
                  /\ d.err # Nil => last.err = d.err /\ last.val = NilVal
    /\ (RoundTrip("GetAllServices") /\ last.resp.body = <<"[", "]">>)
         => last.err = Nil /\ last.val = Val("slice", <<>>)
    /\ (RoundTrip("GetRegions") /\ last.resp.body = <<"{", "}">>)
         => last.err = Nil /\ last.val = Val("map", <<>>)

C10_Witness ==
    /\ RoundTrip("GetAllServices")
    /\ last.resp.status = 404
    /\ last.resp.body = <<"[", "]">>
    /\ last.err = Nil
    /\ last.val = Val("slice", <<>>)

====
